---------------------------- MODULE Spec2Model ----------------------------
(***************************************************************************)
(* SurfaceBufferRelay (surface_buffer_relay.cpp / .h): relays buffers from *)
(* the camera consumer surface (upstream) to the encoder surface           *)
(* (downstream) and back.                                                  *)
(*                                                                         *)
(* Three threads drive the object, each modelled statement by statement:   *)
(*   fwd  - the upstream queue's OnBufferAvailable notification,           *)
(*   rel  - the downstream queue's release callback,                       *)
(*   tear - the caller of Release() (and of the destructor).               *)
(* Init, SetEncoderSurface and SetImuDataCallback are setup calls of the   *)
(* owner.  The two queues are the environment: which buffers are queued,   *)
(* acquired, attached, released, and whether a queue call succeeds.        *)
(* A call through a null sptr is undefined behaviour; every build          *)
(* dispatches the virtual call through the null object and the process     *)
(* dies: the model records it in fault and stops.                          *)
(***************************************************************************)
EXTENDS Integers, FiniteSets, Sequences, TLC

\* ---- bounds of the model ----
NumBuffers == 1
MaxFrames == 2
MaxReleaseCalls == 2

\* ---- program constants ----
IMU_DATA_SIZE == 768

Buffers == 1..NumBuffers
NoBuf == 0
\* the fence the forward path passes (-1: none) and a valid fence descriptor
NoFence == 0 - 1
Fences == {NoFence, 5}
NoCall == 0 - 2

\* what SurfaceBuffer::GetMetadata(ATTRKEY_ROI_METADATA) can yield: the
\* attribute absent (error), or present with some length
Metas == {[present |-> FALSE, size |-> 0]}
         \cup {[present |-> TRUE, size |-> s] :
                 s \in {IMU_DATA_SIZE - 1, IMU_DATA_SIZE, IMU_DATA_SIZE + 1}}

VARIABLES
    \* fields of SurfaceBufferRelay
    isRunning,              \* std::atomic<bool> isRunning_
    cameraConsumerSurface,  \* TRUE: the sptr is non-null
    cameraProducerSurface,
    encoderSurface,
    bufferMap,              \* key set of bufferMap_ (the value is the buffer itself)
    bufferMapMutex,         \* holder of bufferMapMutex_: "none", "fwd", "rel", "tear"
    imuCallback,            \* TRUE: imuCallback_ holds a callable
    frameIndex,             \* std::atomic<uint32_t> frameIndex_
    \* the queues (environment)
    consumerListener,       \* a listener is registered on the consumer surface
    releaseListener,        \* the release listener is registered on the encoder surface
    upstream,               \* buffer -> "free" | "queued" | "acquired"
    downstream,             \* buffer -> "none" | "attached" | "released"
    \* the notification thread: program counter, local buffer, record of the cycle
    fpc, fbuf, cyc,
    \* the release-callback thread: program counter, arguments, record of the cycle
    rpc, rbuf, rfence, rcyc,
    \* the teardown thread
    tpc, releaseCalls, unregCalls,
    \* the owner's setup calls
    initCalled, lastRet,
    \* observation
    fault,                  \* "none", or the call that went through a null sptr
    inFlight,               \* forwarded (AttachAndFlushBuffer ok), ReleaseBuffer not yet called
    returned,               \* buffer -> ReleaseBuffer calls since its last acquire:
                            \*   "none", "once", "more"
    lastCb,                 \* the frame index the last metadata callback of an
                            \*   earlier cycle was invoked with (NoCall: none yet)
    okSince                 \* a forward succeeded in the cycle of that callback
                            \*   or in a later one (FALSE while there was no callback)

fields == <<isRunning, cameraConsumerSurface, cameraProducerSurface, encoderSurface,
            bufferMap, bufferMapMutex, imuCallback, frameIndex>>
queues == <<consumerListener, releaseListener, upstream, downstream>>
fwdVars == <<fpc, fbuf, cyc>>
relVars == <<rpc, rbuf, rfence, rcyc>>
tearVars == <<tpc, releaseCalls, unregCalls>>
ownerVars == <<initCalled, lastRet>>
obsVars == <<fault, inFlight, returned, lastCb, okSince>>
vars == <<fields, queues, fwdVars, relVars, tearVars, ownerVars, obsVars>>

\* The record of one forward cycle (OnBufferAvailable .. return):
\*   entry - how far the cycle got: "notRunning", "notReady", "acquireFailed", "acquired"
\*   late  - the notification arrived after a Release() had completed
\*   exact - the metadata blob read from the buffer had exactly IMU_DATA_SIZE bytes
\*   cbs   - the number of metadata callback invocations; cb: the frame index of
\*           the last one (NoCall: none)
\*   atts  - the number of AttachAndFlushBuffer calls; att: the result of
\*           AttachBufferToEncoder
\*   rels  - the number of ReleaseBuffer calls; rel: the fence of the last one
\*   ins   - the number of registry inserts; dup: the key was already present
\*   fi0   - frameIndex_ when the cycle began
NoCycle == [entry |-> "none", late |-> FALSE, exact |-> FALSE, cbs |-> 0, cb |-> NoCall,
            atts |-> 0, att |-> "none", rels |-> 0, rel |-> NoCall,
            ins |-> 0, dup |-> FALSE, fi0 |-> 0]
\* The record of one release callback (OnEncoderReleaseBuffer .. return):
\*   late   - the callback arrived after a Release() had completed
\*   legit  - the buffer was attached to the encoder when the callback was delivered
\*   inReg  - the buffer was a key of bufferMap_ when the callback was delivered
\*   det    - the result of RequestAndDetachBuffer
\*   ret    - the result of ReturnBufferToCamera
\*   calls  - the number of ReleaseBuffer calls; fence: the fence of the last one
\*   erases - the number of bufferMap_.erase calls; removed: the number of
\*            keys those calls took out of the registry
\*   up     - what the handler hands to its caller about the return to the camera
NoRelCycle == [late |-> FALSE, legit |-> FALSE, inReg |-> FALSE, det |-> "none",
               ret |-> "none", calls |-> 0, fence |-> NoCall, erases |-> 0,
               removed |-> 0, up |-> "none"]

Alive == fault = "none"
\* Release() has been entered at least once
TeardownBegun == tpc # "idle" \/ releaseCalls > 0
\* Release() has run to completion at least once and is not running now
TeardownDone == tpc = "idle" /\ releaseCalls > 0

\* one more ReleaseBuffer call on a buffer
OneMore(n) == IF n = "none" THEN "once" ELSE "more"

\* SurfaceBufferRelay::SurfaceBufferRelay
Init ==
    /\ isRunning = FALSE
    /\ cameraConsumerSurface = FALSE
    /\ cameraProducerSurface = FALSE
    /\ encoderSurface = FALSE
    /\ bufferMap = {}
    /\ bufferMapMutex = "none"
    /\ imuCallback = FALSE
    /\ frameIndex = 0
    /\ consumerListener = FALSE
    /\ releaseListener = FALSE
    /\ upstream = [b \in Buffers |-> "free"]
    /\ downstream = [b \in Buffers |-> "none"]
    /\ fpc = "idle" /\ fbuf = NoBuf /\ cyc = NoCycle
    /\ rpc = "idle" /\ rbuf = NoBuf /\ rfence = NoFence /\ rcyc = NoRelCycle
    /\ tpc = "idle" /\ releaseCalls = 0 /\ unregCalls = 0
    /\ initCalled = FALSE /\ lastRet = "none"
    /\ fault = "none"
    /\ inFlight = {}
    /\ returned = [b \in Buffers |-> "none"]
    /\ lastCb = NoCall
    /\ okSince = FALSE

\* ------------------------------------------------------------------------
\* The queues, as far as the relay observes them
\* ------------------------------------------------------------------------

\* IConsumerSurface::ReleaseBuffer(b, fence): the queue takes back a buffer it
\* handed out (and may still refuse it); any other buffer is refused
UpstreamReleaseResults(b) ==
    IF upstream[b] = "acquired" THEN {TRUE, FALSE} ELSE {FALSE}

\* Surface::AttachAndFlushBuffer(b, -1, cfg): a buffer still held by the
\* encoder queue is refused; otherwise the collaborator decides
AttachResults(b) ==
    IF downstream[b] = "none" THEN {TRUE, FALSE} ELSE {FALSE}

\* Surface::RequestAndDetachBuffer(b, fence): only a buffer in the encoder
\* queue can be detached
DetachResults(b) ==
    IF downstream[b] = "none" THEN {FALSE} ELSE {TRUE, FALSE}

\* the camera fills a free buffer through the producer surface and flushes it
CameraProduce(b) ==
    /\ Alive
    /\ cameraProducerSurface
    /\ frameIndex < MaxFrames
    /\ upstream[b] = "free"
    /\ upstream' = [upstream EXCEPT ![b] = "queued"]
    /\ UNCHANGED <<fields, consumerListener, releaseListener, downstream,
                   fwdVars, relVars, tearVars, ownerVars, obsVars>>

\* ------------------------------------------------------------------------
\* Setup calls of the owner
\* ------------------------------------------------------------------------

InitOutcomes == {"createFail", "registerFail", "producerFail", "surfaceFail", "ok"}

\* SurfaceBufferRelay::Init; outcome names the first sub-step that fails
InitCall(outcome) ==
    /\ Alive
    /\ ~initCalled
    /\ ~TeardownBegun
    /\ initCalled' = TRUE
    /\ cameraConsumerSurface' = (outcome # "createFail")
    /\ consumerListener' = (outcome \in {"producerFail", "surfaceFail", "ok"})
    /\ cameraProducerSurface' = (outcome = "ok")
    /\ isRunning' = (outcome = "ok")
    /\ lastRet' = CASE outcome = "ok" -> "DCAMERA_OK"
                    [] outcome = "registerFail" -> "DCAMERA_BAD_OPERATE"
                    [] OTHER -> "DCAMERA_INIT_ERR"
    /\ UNCHANGED <<encoderSurface, bufferMap, bufferMapMutex, imuCallback, frameIndex,
                   releaseListener, upstream, downstream,
                   fwdVars, relVars, tearVars, obsVars>>

\* SetEncoderSurface with the handle stored only once the registration succeeded
SetEncoderSurfaceStoresAfter(handle, regOk) ==
    /\ Alive
    /\ ~TeardownBegun
    /\ ~encoderSurface
    /\ IF ~handle
         THEN /\ lastRet' = "DCAMERA_BAD_VALUE"
              /\ UNCHANGED <<encoderSurface, releaseListener>>
         ELSE /\ encoderSurface' = regOk
              /\ releaseListener' = regOk
              /\ lastRet' = IF regOk THEN "DCAMERA_OK" ELSE "DCAMERA_BAD_OPERATE"
    /\ UNCHANGED <<isRunning, cameraConsumerSurface, cameraProducerSurface, bufferMap,
                   bufferMapMutex, imuCallback, frameIndex, consumerListener,
                   upstream, downstream, initCalled,
                   fwdVars, relVars, tearVars, obsVars>>

\* SurfaceBufferRelay::SetEncoderSurface; handle: the argument is non-null,
\* regOk: RegisterReleaseListener returns GSERROR_OK
SetEncoderSurface(handle, regOk) ==
    /\ Alive
    /\ ~TeardownBegun
    /\ ~encoderSurface
    /\ IF ~handle
         THEN /\ lastRet' = "DCAMERA_BAD_VALUE"
              /\ UNCHANGED <<encoderSurface, releaseListener>>
         ELSE /\ encoderSurface' = TRUE
              /\ releaseListener' = regOk
              /\ lastRet' = IF regOk THEN "DCAMERA_OK" ELSE "DCAMERA_BAD_OPERATE"
    /\ UNCHANGED <<isRunning, cameraConsumerSurface, cameraProducerSurface, bufferMap,
                   bufferMapMutex, imuCallback, frameIndex, consumerListener,
                   upstream, downstream, initCalled,
                   fwdVars, relVars, tearVars, obsVars>>

\* SurfaceBufferRelay::SetImuDataCallback; set: the callable is non-empty
SetImuDataCallback(set) ==
    /\ Alive
    /\ fpc = "idle"
    /\ imuCallback # set
    /\ imuCallback' = set
    /\ UNCHANGED <<isRunning, cameraConsumerSurface, cameraProducerSurface,
                   encoderSurface, bufferMap, bufferMapMutex, frameIndex,
                   queues, fwdVars, relVars, tearVars, ownerVars, obsVars>>

\* ------------------------------------------------------------------------
\* The forward path: OnBufferAvailable -> RelayBufferFromCamera
\* ------------------------------------------------------------------------

\* ExtractImuData with the size check written as "too short"
ExtractImuDataAtLeast(meta) ==
    IF ~meta.present THEN FALSE
    ELSE IF meta.size < IMU_DATA_SIZE THEN FALSE
    ELSE TRUE

\* SurfaceBufferRelay::ExtractImuData on the buffer's metadata attribute
ExtractImuData(meta) ==
    IF ~meta.present THEN FALSE
    ELSE IF meta.size # IMU_DATA_SIZE THEN FALSE
    ELSE TRUE

\* OnBufferAvailable: the running-flag check
OnBufferAvailable ==
    /\ Alive
    /\ fpc = "idle"
    /\ IF ~isRunning
         THEN /\ cyc' = [NoCycle EXCEPT !.entry = "notRunning", !.late = TeardownDone]
              /\ fpc' = "ret"
         ELSE /\ cyc' = [NoCycle EXCEPT !.late = TeardownDone, !.fi0 = frameIndex]
              /\ fpc' = "check"
    /\ UNCHANGED <<fields, queues, fbuf, relVars, tearVars, ownerVars, obsVars>>

\* RelayBufferFromCamera: the endpoint check
FwdCheck ==
    /\ Alive
    /\ fpc = "check"
    /\ IF ~cameraConsumerSurface \/ ~encoderSurface
         THEN /\ fpc' = "ret"
              /\ cyc' = [cyc EXCEPT !.entry = "notReady"]
         ELSE /\ fpc' = "acquire"
              /\ cyc' = cyc
    /\ UNCHANGED <<fields, queues, fbuf, relVars, tearVars, ownerVars, obsVars>>

\* the metadata callback invoked without asking ExtractImuData
ImuCallbackArgUnchecked(meta) ==
    IF imuCallback THEN frameIndex ELSE NoCall

\* RelayBufferFromCamera: if (ExtractImuData(buffer, imuData)) { if
\* (imuCallback_) imuCallback_(frameIndex_.load(), imuData); } - the frame
\* index the callback is invoked with, NoCall when it is not invoked
ImuCallbackArg(meta) ==
    IF ExtractImuData(meta) /\ imuCallback THEN frameIndex ELSE NoCall

\* FwdAcquire with a failed acquire falling through to the frame-index increment
FwdAcquireConsumesIndex ==
    /\ Alive
    /\ fpc = "acquire"
    /\ IF ~cameraConsumerSurface
         THEN /\ fault' = "AcquireBuffer"
              /\ UNCHANGED <<upstream, fpc, fbuf, cyc, returned>>
         ELSE /\ fault' = fault
              /\ \/ \E b \in Buffers, m \in Metas :
                       /\ upstream[b] = "queued"
                       /\ upstream' = [upstream EXCEPT ![b] = "acquired"]
                       /\ returned' = [returned EXCEPT ![b] = "none"]
                       /\ fbuf' = b
                       /\ cyc' = [cyc EXCEPT !.entry = "acquired",
                                             !.exact = (m.present /\ m.size = IMU_DATA_SIZE),
                                             !.cb = ImuCallbackArg(m),
                                             !.cbs = IF ImuCallbackArg(m) = NoCall
                                                       THEN @ ELSE @ + 1]
                       /\ fpc' = "attach"
                 \/ /\ fpc' = "incr"
                    /\ cyc' = [cyc EXCEPT !.entry = "acquireFailed"]
                    /\ UNCHANGED <<upstream, fbuf, returned>>
    /\ UNCHANGED <<fields, consumerListener, releaseListener, downstream,
                   relVars, tearVars, ownerVars, inFlight>>
    /\ UNCHANGED <<lastCb, okSince>>

\* RelayBufferFromCamera: cameraConsumerSurface_->AcquireBuffer, the fence
\* close, ExtractImuData and the metadata callback (all local to the thread
\* once the buffer is acquired)
FwdAcquire ==
    /\ Alive
    /\ fpc = "acquire"
    /\ IF ~cameraConsumerSurface
         THEN /\ fault' = "AcquireBuffer"
              /\ UNCHANGED <<upstream, fpc, fbuf, cyc, returned>>
         ELSE /\ fault' = fault
              /\ \/ \E b \in Buffers, m \in Metas :
                       /\ upstream[b] = "queued"
                       /\ upstream' = [upstream EXCEPT ![b] = "acquired"]
                       /\ returned' = [returned EXCEPT ![b] = "none"]
                       /\ fbuf' = b
                       /\ cyc' = [cyc EXCEPT !.entry = "acquired",
                                             !.exact = (m.present /\ m.size = IMU_DATA_SIZE),
                                             !.cb = ImuCallbackArg(m),
                                             !.cbs = IF ImuCallbackArg(m) = NoCall
                                                       THEN @ ELSE @ + 1]
                       /\ fpc' = "attach"
                 \/ /\ fpc' = "ret"
                    /\ cyc' = [cyc EXCEPT !.entry = "acquireFailed"]
                    /\ UNCHANGED <<upstream, fbuf, returned>>
    /\ UNCHANGED <<fields, consumerListener, releaseListener, downstream,
                   relVars, tearVars, ownerVars, inFlight>>
    /\ UNCHANGED <<lastCb, okSince>>

\* RelayBufferFromCamera -> AttachBufferToEncoder
FwdAttach ==
    /\ Alive
    /\ fpc = "attach"
    /\ IF ~encoderSurface
         THEN /\ cyc' = [cyc EXCEPT !.att = "DCAMERA_BAD_VALUE"]
              /\ fpc' = "fallback"
              /\ UNCHANGED <<downstream, inFlight>>
         ELSE \E ok \in AttachResults(fbuf) :
                IF ok
                  THEN /\ downstream' = [downstream EXCEPT ![fbuf] = "attached"]
                       /\ inFlight' = inFlight \cup {fbuf}
                       /\ cyc' = [cyc EXCEPT !.att = "DCAMERA_OK", !.atts = @ + 1]
                       /\ fpc' = "lock"
                  ELSE /\ cyc' = [cyc EXCEPT !.att = "DCAMERA_BAD_OPERATE", !.atts = @ + 1]
                       /\ fpc' = "fallback"
                       /\ UNCHANGED <<downstream, inFlight>>
    /\ UNCHANGED <<fields, consumerListener, releaseListener, upstream, fbuf,
                   relVars, tearVars, ownerVars, fault, returned>>
    /\ UNCHANGED <<lastCb, okSince>>

\* RelayBufferFromCamera: attach failed, cameraConsumerSurface_->ReleaseBuffer(buffer, -1)
FwdFallback ==
    /\ Alive
    /\ fpc = "fallback"
    /\ IF ~cameraConsumerSurface
         THEN /\ fault' = "ReleaseBuffer"
              /\ UNCHANGED <<upstream, fpc, cyc, inFlight, returned>>
         ELSE /\ fault' = fault
              /\ \E ok \in UpstreamReleaseResults(fbuf) :
                    upstream' = IF ok THEN [upstream EXCEPT ![fbuf] = "free"]
                                      ELSE upstream
              /\ returned' = [returned EXCEPT ![fbuf] = OneMore(@)]
              /\ inFlight' = inFlight \ {fbuf}
              /\ cyc' = [cyc EXCEPT !.rel = NoFence, !.rels = @ + 1]
              /\ fpc' = "ret"
    /\ UNCHANGED <<fields, consumerListener, releaseListener, downstream, fbuf,
                   relVars, tearVars, ownerVars>>
    /\ UNCHANGED <<lastCb, okSince>>

\* RelayBufferFromCamera: std::lock_guard lock(bufferMapMutex_)
FwdLock ==
    /\ Alive
    /\ fpc = "lock"
    /\ bufferMapMutex = "none"
    /\ bufferMapMutex' = "fwd"
    /\ fpc' = "insert"
    /\ UNCHANGED <<isRunning, cameraConsumerSurface, cameraProducerSurface,
                   encoderSurface, bufferMap, imuCallback, frameIndex,
                   queues, fbuf, cyc, relVars, tearVars, ownerVars, obsVars>>

\* FwdInsert with the lock kept after the insert
FwdInsertKeepsLock ==
    /\ Alive
    /\ fpc = "insert"
    /\ bufferMap' = bufferMap \cup {fbuf}
    /\ bufferMapMutex' = "fwd"
    /\ cyc' = [cyc EXCEPT !.ins = @ + 1, !.dup = (fbuf \in bufferMap)]
    /\ fpc' = "incr"
    /\ UNCHANGED <<isRunning, cameraConsumerSurface, cameraProducerSurface,
                   encoderSurface, imuCallback, frameIndex,
                   queues, fbuf, relVars, tearVars, ownerVars, obsVars>>

\* RelayBufferFromCamera: bufferMap_[buffer->GetVirAddr()] = buffer, unlock
FwdInsert ==
    /\ Alive
    /\ fpc = "insert"
    /\ bufferMap' = bufferMap \cup {fbuf}
    /\ bufferMapMutex' = "none"
    /\ cyc' = [cyc EXCEPT !.ins = @ + 1, !.dup = (fbuf \in bufferMap)]
    /\ fpc' = "incr"
    /\ UNCHANGED <<isRunning, cameraConsumerSurface, cameraProducerSurface,
                   encoderSurface, imuCallback, frameIndex,
                   queues, fbuf, relVars, tearVars, ownerVars, obsVars>>

\* frameIndex_++ written as a load that stores nothing
NextFrameIndexStuck(i) == i

\* frameIndex_++ written as an advance by two
NextFrameIndexTwice(i) == i + 2

\* frameIndex_++ on std::atomic<uint32_t>.  The counter starts at 0 and the
\* model stops the camera after MaxFrames forwards, so the wrap at 2^32 (which
\* is also beyond the integers TLC represents) is never reached.
NextFrameIndex(i) == i + 1

\* RelayBufferFromCamera: frameIndex_++
FwdIncrement ==
    /\ Alive
    /\ fpc = "incr"
    /\ frameIndex' = NextFrameIndex(frameIndex)
    /\ fpc' = "ret"
    /\ UNCHANGED <<isRunning, cameraConsumerSurface, cameraProducerSurface,
                   encoderSurface, bufferMap, bufferMapMutex, imuCallback,
                   queues, fbuf, cyc, relVars, tearVars, ownerVars, obsVars>>

\* OnBufferAvailable returns to the queue runtime
FwdReturn ==
    /\ Alive
    /\ fpc = "ret"
    /\ fpc' = "idle"
    /\ fbuf' = NoBuf
    /\ cyc' = NoCycle
    /\ lastCb' = IF cyc.cbs > 0 THEN cyc.cb ELSE lastCb
    /\ okSince' = IF cyc.cbs > 0 THEN cyc.att = "DCAMERA_OK"
                  ELSE IF lastCb = NoCall THEN FALSE
                  ELSE (okSince \/ cyc.att = "DCAMERA_OK")
    /\ UNCHANGED <<fields, queues, relVars, tearVars, ownerVars,
                   fault, inFlight, returned>>

\* ------------------------------------------------------------------------
\* The release path: the encoder's release callback -> OnEncoderReleaseBuffer
\* ------------------------------------------------------------------------

\* The encoder queue delivers the release callback for buffer b with fence f
\* (b = NoBuf: a null handle).  OnEncoderReleaseBuffer: the null check.
OnEncoderReleaseBuffer(b, f) ==
    /\ Alive
    /\ rpc = "idle"
    /\ releaseListener
    /\ rbuf' = b
    /\ rfence' = f
    /\ IF b = NoBuf
         THEN /\ rcyc' = [NoRelCycle EXCEPT !.late = TeardownDone]
              /\ rpc' = "ret"
              /\ UNCHANGED downstream
         ELSE /\ rcyc' = [NoRelCycle EXCEPT !.late = TeardownDone,
                                            !.legit = (downstream[b] = "attached"),
                                            !.inReg = (b \in bufferMap)]
              /\ rpc' = "detach"
              /\ downstream' = IF downstream[b] = "attached"
                                 THEN [downstream EXCEPT ![b] = "released"]
                                 ELSE downstream
    /\ UNCHANGED <<fields, consumerListener, releaseListener, upstream,
                   fwdVars, tearVars, ownerVars, fault, inFlight, returned>>
    /\ UNCHANGED <<lastCb, okSince>>

\* RelDetach with a failed detach ending the handler
RelDetachAborts ==
    /\ Alive
    /\ rpc = "detach"
    /\ IF ~encoderSurface
         THEN /\ fault' = "RequestAndDetachBuffer"
              /\ UNCHANGED <<downstream, rpc, rcyc>>
         ELSE /\ fault' = fault
              /\ \E ok \in DetachResults(rbuf) :
                    /\ downstream' = IF ok THEN [downstream EXCEPT ![rbuf] = "none"]
                                           ELSE downstream
                    /\ rcyc' = [rcyc EXCEPT !.det = IF ok THEN "GSERROR_OK" ELSE "failed"]
                    /\ rpc' = IF ok THEN "return" ELSE "ret"
    /\ UNCHANGED <<fields, consumerListener, releaseListener, upstream, rbuf, rfence,
                   fwdVars, tearVars, ownerVars, inFlight, returned>>
    /\ UNCHANGED <<lastCb, okSince>>

\* OnEncoderReleaseBuffer: encoderSurface_->RequestAndDetachBuffer(buffer, fence)
RelDetach ==
    /\ Alive
    /\ rpc = "detach"
    /\ IF ~encoderSurface
         THEN /\ fault' = "RequestAndDetachBuffer"
              /\ UNCHANGED <<downstream, rpc, rcyc>>
         ELSE /\ fault' = fault
              /\ \E ok \in DetachResults(rbuf) :
                    /\ downstream' = IF ok THEN [downstream EXCEPT ![rbuf] = "none"]
                                           ELSE downstream
                    /\ rcyc' = [rcyc EXCEPT !.det = IF ok THEN "GSERROR_OK" ELSE "failed"]
              /\ rpc' = "return"
    /\ UNCHANGED <<fields, consumerListener, releaseListener, upstream, rbuf, rfence,
                   fwdVars, tearVars, ownerVars, inFlight, returned>>
    /\ UNCHANGED <<lastCb, okSince>>

\* OnEncoderReleaseBuffer: the statement ReturnBufferToCamera(buffer, fence);
\* discards the int32_t result ret, and the handler itself returns void: its
\* caller is handed nothing
ReleasePathReport(ret) == "none"

\* OnEncoderReleaseBuffer -> ReturnBufferToCamera(buffer, fence); the result
\* is dropped by the caller
RelReturn ==
    /\ Alive
    /\ rpc = "return"
    /\ IF ~cameraConsumerSurface
         THEN /\ rcyc' = [rcyc EXCEPT !.ret = "DCAMERA_BAD_VALUE",
                                      !.up = ReleasePathReport("DCAMERA_BAD_VALUE")]
              /\ UNCHANGED <<upstream, inFlight, returned>>
         ELSE /\ \E ok \in UpstreamReleaseResults(rbuf) :
                    /\ upstream' = IF ok THEN [upstream EXCEPT ![rbuf] = "free"]
                                         ELSE upstream
                    /\ rcyc' = [rcyc EXCEPT
                                  !.ret = IF ok THEN "DCAMERA_OK" ELSE "DCAMERA_BAD_OPERATE",
                                  !.up = ReleasePathReport(IF ok THEN "DCAMERA_OK"
                                                                 ELSE "DCAMERA_BAD_OPERATE"),
                                  !.calls = @ + 1, !.fence = rfence]
              /\ returned' = [returned EXCEPT ![rbuf] = OneMore(@)]
              /\ inFlight' = inFlight \ {rbuf}
    /\ rpc' = "lock"
    /\ UNCHANGED <<fields, consumerListener, releaseListener, downstream, rbuf, rfence,
                   fwdVars, tearVars, ownerVars, fault>>
    /\ UNCHANGED <<lastCb, okSince>>

\* OnEncoderReleaseBuffer: std::lock_guard lock(bufferMapMutex_)
RelLock ==
    /\ Alive
    /\ rpc = "lock"
    /\ bufferMapMutex = "none"
    /\ bufferMapMutex' = "rel"
    /\ rpc' = "erase"
    /\ UNCHANGED <<isRunning, cameraConsumerSurface, cameraProducerSurface,
                   encoderSurface, bufferMap, imuCallback, frameIndex,
                   queues, rbuf, rfence, rcyc, fwdVars, tearVars, ownerVars, obsVars>>

\* OnEncoderReleaseBuffer: bufferMap_.erase(buffer->GetVirAddr()), unlock
RelErase ==
    /\ Alive
    /\ rpc = "erase"
    /\ bufferMap' = bufferMap \ {rbuf}
    /\ bufferMapMutex' = "none"
    /\ rcyc' = [rcyc EXCEPT !.erases = @ + 1,
                             !.removed = IF rbuf \in bufferMap THEN @ + 1 ELSE @]
    /\ rpc' = "ret"
    /\ UNCHANGED <<isRunning, cameraConsumerSurface, cameraProducerSurface,
                   encoderSurface, imuCallback, frameIndex,
                   queues, rbuf, rfence, fwdVars, tearVars, ownerVars, obsVars>>

\* OnEncoderReleaseBuffer returns to the queue runtime
RelDone ==
    /\ Alive
    /\ rpc = "ret"
    /\ rpc' = "idle"
    /\ rbuf' = NoBuf
    /\ rfence' = NoFence
    /\ rcyc' = NoRelCycle
    /\ UNCHANGED <<fields, queues, fwdVars, tearVars, ownerVars, obsVars>>

\* ------------------------------------------------------------------------
\* Teardown: Release(), also run by the destructor
\* ------------------------------------------------------------------------

\* Release: isRunning_ = false
ReleaseEnter ==
    /\ Alive
    /\ tpc = "idle"
    /\ releaseCalls < MaxReleaseCalls
    /\ isRunning' = FALSE
    /\ tpc' = "unregister"
    /\ UNCHANGED <<cameraConsumerSurface, cameraProducerSurface, encoderSurface,
                   bufferMap, bufferMapMutex, imuCallback, frameIndex,
                   queues, fwdVars, relVars, releaseCalls, unregCalls,
                   ownerVars, obsVars>>

\* TearUnregister without the null check: every Release() unregisters
TearUnregisterUnchecked ==
    /\ Alive
    /\ tpc = "unregister"
    /\ consumerListener' = FALSE
    /\ unregCalls' = unregCalls + 1
    /\ tpc' = "dropConsumer"
    /\ UNCHANGED <<fields, releaseListener, upstream, downstream,
                   fwdVars, relVars, releaseCalls, ownerVars, obsVars>>

\* Release: if (cameraConsumerSurface_ != nullptr) UnregisterConsumerListener()
TearUnregister ==
    /\ Alive
    /\ tpc = "unregister"
    /\ IF cameraConsumerSurface
         THEN /\ consumerListener' = FALSE
              /\ unregCalls' = unregCalls + 1
              /\ tpc' = "dropConsumer"
         ELSE /\ UNCHANGED <<consumerListener, unregCalls>>
              /\ tpc' = "dropProducer"
    /\ UNCHANGED <<fields, releaseListener, upstream, downstream,
                   fwdVars, relVars, releaseCalls, ownerVars, obsVars>>

\* Release: cameraConsumerSurface_ = nullptr
TearDropConsumer ==
    /\ Alive
    /\ tpc = "dropConsumer"
    /\ cameraConsumerSurface' = FALSE
    /\ tpc' = "dropProducer"
    /\ UNCHANGED <<isRunning, cameraProducerSurface, encoderSurface, bufferMap,
                   bufferMapMutex, imuCallback, frameIndex,
                   queues, fwdVars, relVars, releaseCalls, unregCalls,
                   ownerVars, obsVars>>

\* Release: cameraProducerSurface_ = nullptr
TearDropProducer ==
    /\ Alive
    /\ tpc = "dropProducer"
    /\ cameraProducerSurface' = FALSE
    /\ tpc' = "dropEncoder"
    /\ UNCHANGED <<isRunning, cameraConsumerSurface, encoderSurface, bufferMap,
                   bufferMapMutex, imuCallback, frameIndex,
                   queues, fwdVars, relVars, releaseCalls, unregCalls,
                   ownerVars, obsVars>>

\* Release: encoderSurface_ = nullptr
TearDropEncoder ==
    /\ Alive
    /\ tpc = "dropEncoder"
    /\ encoderSurface' = FALSE
    /\ tpc' = "lock"
    /\ UNCHANGED <<isRunning, cameraConsumerSurface, cameraProducerSurface, bufferMap,
                   bufferMapMutex, imuCallback, frameIndex,
                   queues, fwdVars, relVars, releaseCalls, unregCalls,
                   ownerVars, obsVars>>

\* Release: std::lock_guard lock(bufferMapMutex_)
TearLock ==
    /\ Alive
    /\ tpc = "lock"
    /\ bufferMapMutex = "none"
    /\ bufferMapMutex' = "tear"
    /\ tpc' = "clear"
    /\ UNCHANGED <<isRunning, cameraConsumerSurface, cameraProducerSurface,
                   encoderSurface, bufferMap, imuCallback, frameIndex,
                   queues, fwdVars, relVars, releaseCalls, unregCalls,
                   ownerVars, obsVars>>

\* Release: bufferMap_.clear(), unlock, return
TearClear ==
    /\ Alive
    /\ tpc = "clear"
    /\ bufferMap' = {}
    /\ bufferMapMutex' = "none"
    /\ releaseCalls' = releaseCalls + 1
    /\ tpc' = "idle"
    /\ UNCHANGED <<isRunning, cameraConsumerSurface, cameraProducerSurface,
                   encoderSurface, imuCallback, frameIndex,
                   queues, fwdVars, relVars, unregCalls, ownerVars, obsVars>>

\* ------------------------------------------------------------------------
\* The specifications
\* ------------------------------------------------------------------------

Owner ==
    \/ \E outcome \in InitOutcomes : InitCall(outcome)
    \/ \E handle \in BOOLEAN, regOk \in BOOLEAN : SetEncoderSurface(handle, regOk)
    \/ \E set \in BOOLEAN : SetImuDataCallback(set)

Camera == \E b \in Buffers : CameraProduce(b)

Forward ==
    \/ OnBufferAvailable
    \/ FwdCheck
    \/ FwdAcquire
    \/ FwdAttach
    \/ FwdFallback
    \/ FwdLock
    \/ FwdInsert
    \/ FwdIncrement
    \/ FwdReturn

\* the encoder releases a buffer that was attached to it
EncoderReleases ==
    \E b \in Buffers, f \in Fences :
        downstream[b] = "attached" /\ OnEncoderReleaseBuffer(b, f)

\* any delivery of the release callback: also a repeated one, one for a
\* buffer the encoder does not hold, or one with a null handle
AnyReleaseCallback ==
    \E b \in Buffers \cup {NoBuf}, f \in Fences : OnEncoderReleaseBuffer(b, f)

ReleaseSteps ==
    \/ RelDetach
    \/ RelReturn
    \/ RelLock
    \/ RelErase
    \/ RelDone

Teardown ==
    \/ ReleaseEnter
    \/ TearUnregister
    \/ TearDropConsumer
    \/ TearDropProducer
    \/ TearDropEncoder
    \/ TearLock
    \/ TearClear

\* the whole life of the engine with a well-behaved encoder: all three
\* threads interleave statement by statement
Next ==
    \/ Owner
    \/ Camera
    \/ Forward
    \/ EncoderReleases
    \/ ReleaseSteps
    \/ Teardown

Spec == Init /\ [][Next]_vars

\* the engine in operation: Release() is not called
NextOperate ==
    \/ Owner
    \/ Camera
    \/ Forward
    \/ EncoderReleases
    \/ ReleaseSteps

SpecOperate == Init /\ [][NextOperate]_vars

\* the engine in operation with an encoder that may deliver any release
\* callback
NextAnyCallback ==
    \/ Owner
    \/ Camera
    \/ Forward
    \/ AnyReleaseCallback
    \/ ReleaseSteps

SpecAnyCallback == Init /\ [][NextAnyCallback]_vars

\* the owner's view of the life cycle: the handlers run one at a time, each
\* to its end (a handler is entered only while the other two threads are idle)
NextSerial ==
    \/ Owner
    \/ Camera
    \/ (rpc = "idle" /\ tpc = "idle") /\ Forward
    \/ (fpc = "idle" /\ tpc = "idle") /\ EncoderReleases
    \/ (fpc = "idle" /\ tpc = "idle") /\ ReleaseSteps
    \/ (fpc = "idle" /\ rpc = "idle") /\ Teardown

SpecSerial == Init /\ [][NextSerial]_vars

\* ------------------------------------------------------------------------
\* Properties
\* ------------------------------------------------------------------------

\* C1: before teardown, a buffer identity is a key of bufferMap_ exactly when
\* the buffer was forwarded (AttachAndFlushBuffer succeeded) and ReleaseBuffer
\* was not called on it since.  Stated for the states in which no handler is
\* running, which the claim (every reachable state, every interleaving)
\* includes.  The code breaks it: a release callback that runs between the
\* attach and the insert leaves a stale key, and an erase that runs after the
\* buffer was forwarded again removes a live one.
C1_RegistryIsInFlight ==
    (fpc = "idle" /\ rpc = "idle" /\ ~TeardownBegun) => bufferMap = inFlight

\* C2: the release callback for a forwarded buffer makes exactly one
\* ReleaseBuffer call on the camera consumer surface and takes exactly one key
\* out of the registry, and at its end the registry does not hold the buffer.
\* When the callback runs between the attach and the insert of C1, its erase
\* finds no key to remove.
C2_OneReturnOneRemoval ==
    (rpc = "ret" /\ rcyc.legit) =>
        /\ rcyc.calls = 1
        /\ rcyc.erases = 1 /\ rcyc.removed = 1
        /\ rbuf \notin bufferMap

\* C3: a buffer acquired from the camera queue gets at most one ReleaseBuffer
\* call per acquire, whatever release callbacks the encoder delivers.  The
\* release path never consults the registry, so a callback for a buffer the
\* engine has already returned makes a second call.
C3_ReturnedAtMostOnce ==
    \A b \in Buffers : returned[b] # "more"

\* C4: a forward cycle attaches its buffer at most once, and the registry
\* insert after a successful attach never finds the key already present.
\* The release path returns the buffer to the camera before it erases the
\* key, so the buffer can be forwarded again while its key is still there.
C4_InsertNeverDuplicates ==
    cyc.atts <= 1 /\ ~cyc.dup

\* C5: a forward cycle whose acquire succeeded and whose attach failed makes
\* one ReleaseBuffer(buffer, -1) call on the camera consumer surface, inserts
\* nothing and leaves frameIndex_ as it was.  When Release() has dropped the
\* endpoints in the meantime (C15), AttachBufferToEncoder fails on the null
\* encoderSurface_ and the fallback calls through the null
\* cameraConsumerSurface_.
C5_FailureSymmetry ==
    /\ (fpc = "ret" /\ cyc.entry = "acquired" /\ cyc.att # "DCAMERA_OK") =>
          /\ cyc.rels = 1 /\ cyc.rel = NoFence
          /\ returned[fbuf] # "none"
          /\ cyc.ins = 0
          /\ frameIndex = cyc.fi0
    /\ fpc = "fallback" => fault # "ReleaseBuffer"

\* C6 as claimed: in a forward cycle that acquired a buffer, the metadata
\* callback is invoked exactly when the blob read from the buffer has
\* IMU_DATA_SIZE bytes.  With no callback set (imuCallback_ empty) a blob of
\* the exact size invokes nothing.
C6_MetadataGating ==
    (cyc.entry = "acquired") => ((cyc.cbs > 0) <=> cyc.exact)

\* C6 amended: in a forward cycle that acquired a buffer, the metadata
\* callback is invoked exactly when a callback is set and the blob read from
\* the buffer has IMU_DATA_SIZE bytes; an absent attribute or one of another
\* length never invokes it.
C6_MetadataGatingWhenSet ==
    (cyc.entry = "acquired") =>
        ((cyc.cbs > 0) <=> (cyc.exact /\ imuCallback))

\* C6 witness: the callback has fired for a buffer whose blob has the exact size
C6_Witness ==
    cyc.entry = "acquired" /\ cyc.exact /\ imuCallback /\ cyc.cbs = 1

\* C7 as claimed: every metadata callback belongs to a frame whose forward
\* succeeds.  The callback runs before AttachBufferToEncoder, so a cycle
\* whose attach fails has already invoked it.
C7_CallbackOnlyForForwarded ==
    (fpc = "ret" /\ cyc.cbs > 0) => cyc.att = "DCAMERA_OK"

\* C7 amended: the metadata callback is invoked at most once per forward
\* cycle, only in a cycle that acquired a buffer whose metadata has the exact
\* size, and before the attach (so the frame's forward may still fail); its
\* argument is the frame index the cycle began with.
C7_CallbackOncePerAcquiredFrame ==
    /\ cyc.cbs <= 1
    /\ cyc.cbs = 1 => (cyc.entry = "acquired" /\ cyc.exact /\ cyc.cb = cyc.fi0)
    /\ (cyc.atts > 0 /\ cyc.exact /\ imuCallback) => cyc.cbs = 1

\* C7 witness: the callback fired in a cycle whose forward then failed
C7_Witness ==
    fpc = "ret" /\ cyc.cbs = 1 /\ cyc.att = "DCAMERA_BAD_OPERATE" /\ cyc.rels = 1

\* C8: a notification or a release callback (non-null buffer) that arrives
\* after Release() has completed touches neither queue nor the registry and
\* does not fault.  OnEncoderReleaseBuffer has no running-flag check and
\* calls RequestAndDetachBuffer through the encoderSurface_ that Release()
\* set to null.
C8_PostTeardownSilence ==
    /\ cyc.late => (fpc \in {"idle", "ret"} /\ cyc.atts = 0 /\ cyc.rels = 0 /\ cyc.ins = 0)
    /\ (rcyc.late /\ rbuf # NoBuf) =>
          /\ rcyc.det = "none" /\ rcyc.calls = 0 /\ rcyc.erases = 0
          /\ fault # "RequestAndDetachBuffer"

\* C9: a release callback for a buffer that is neither a key of bufferMap_
\* nor held by the encoder makes no ReleaseBuffer call.  The code never looks
\* the buffer up: it returns it to the camera all the same.
C9_AbsentIdentityIgnored ==
    (rbuf # NoBuf /\ ~rcyc.inReg /\ ~rcyc.legit) => rcyc.calls = 0

\* C10: when a Release() completes, the running flag is false, the three
\* endpoint references are null and the registry is empty; a Release() that
\* follows a completed one changes none of the flag, the references, the
\* listener registrations and an empty registry;
\* UnregisterConsumerListener is called at most once over all Release()
\* calls; and inside Release() the running flag is already false whenever the
\* listener is unregistered or a reference dropped.
C10_ReleaseIdempotent ==
    /\ [][(tpc = "clear" /\ tpc' = "idle") =>
             /\ ~isRunning'
             /\ ~cameraConsumerSurface' /\ ~cameraProducerSurface' /\ ~encoderSurface'
             /\ bufferMap' = {}]_vars
    /\ [][(releaseCalls >= 1 /\ tpc' # tpc) =>
             /\ UNCHANGED <<isRunning, cameraConsumerSurface, cameraProducerSurface,
                            encoderSurface, consumerListener, releaseListener,
                            unregCalls>>
             /\ bufferMap = {} => bufferMap' = {}]_vars
    /\ [](unregCalls <= 1)
    /\ [](tpc # "idle" => ~isRunning)

\* C10 witness: a second Release() has completed on an engine that was
\* initialised and had forwarded a frame
C10_Witness ==
    /\ tpc = "idle" /\ releaseCalls = 2 /\ unregCalls = 1
    /\ frameIndex >= 1
    /\ ~isRunning /\ bufferMap = {}

\* C11: an Init() that fails leaves the engine as it was before the call: the
\* running flag false, no consumer surface held, no listener registered, no
\* producer surface; and the running flag is true only after a complete
\* Init().  (~isRunning after Init() and before any Release() means Init()
\* failed.)  Every failure after IConsumerSurface::Create returns without
\* resetting cameraConsumerSurface_, and the two producer failures leave the
\* listener registered.
C11_InitFailureCleansUp ==
    /\ (initCalled /\ ~isRunning /\ ~TeardownBegun) =>
          /\ ~cameraConsumerSurface
          /\ ~consumerListener
          /\ ~cameraProducerSurface
    /\ isRunning => (cameraConsumerSurface /\ consumerListener /\ cameraProducerSurface)

\* C12: when ReleaseBuffer on the camera consumer surface fails in the
\* release path, the handler made exactly one ReleaseBuffer call and hands
\* the failure to its caller.  OnEncoderReleaseBuffer is void and discards
\* the result of ReturnBufferToCamera: the failure is logged and nothing
\* else.
C12_ReturnFailureReported ==
    (rpc \in {"lock", "erase", "ret"} /\ rcyc.ret = "DCAMERA_BAD_OPERATE") =>
        /\ rcyc.calls = 1
        /\ rcyc.up = rcyc.ret

\* C13: frameIndex_ starts at 0; the only step that changes it is the
\* increment by one at the end of a forward cycle whose attach succeeded,
\* after the registry insert; so at the end of every cycle it is the value the
\* cycle began with, plus one exactly when the forward succeeded; and the
\* metadata callback receives the value the cycle began with (the value
\* before the increment).
C13_FrameIndexCountsForwards ==
    /\ frameIndex = 0
    /\ [][frameIndex' # frameIndex =>
             /\ fpc = "incr" /\ cyc.att = "DCAMERA_OK" /\ cyc.ins = 1
             /\ frameIndex' = frameIndex + 1]_vars
    /\ [](fpc \in {"check", "acquire", "attach", "fallback", "lock", "insert", "incr"}
             => frameIndex = cyc.fi0)
    /\ []((fpc = "ret" /\ cyc.entry # "notRunning") =>
             frameIndex = cyc.fi0 + (IF cyc.att = "DCAMERA_OK" THEN 1 ELSE 0))
    /\ [](cyc.cbs > 0 => cyc.cb = cyc.fi0)

\* C13 witness: the first forwarded frame had valid metadata, its callback
\* got index 0, and after its forward the index is 1
C13_Witness ==
    fpc = "ret" /\ cyc.cbs = 1 /\ cyc.cb = 0 /\ cyc.att = "DCAMERA_OK" /\ frameIndex = 1

\* C14: a forward cycle whose AcquireBuffer fails or yields no buffer ends
\* there: the failing step changes no field of the engine and neither queue,
\* and the cycle makes no metadata callback, no AttachAndFlushBuffer call, no
\* ReleaseBuffer call and no registry insert, and leaves frameIndex_ as it
\* was.
C14_AcquireFailureNoEffect ==
    /\ [](cyc.entry = "acquireFailed" =>
             /\ fpc = "ret" /\ fbuf = NoBuf
             /\ cyc.cbs = 0 /\ cyc.atts = 0 /\ cyc.rels = 0 /\ cyc.ins = 0
             /\ frameIndex = cyc.fi0)
    /\ [][(cyc'.entry = "acquireFailed" /\ cyc.entry # "acquireFailed") =>
             UNCHANGED <<fields, queues, obsVars>>]_vars

\* C14 witness: an acquire failed on an engine that has a callback set and
\* has already forwarded a frame
C14_Witness ==
    /\ fpc = "ret" /\ cyc.entry = "acquireFailed"
    /\ imuCallback /\ frameIndex = 1 /\ cyc.fi0 = 1

\* C15: while Release() runs concurrently with a forward cycle, the cycle
\* makes no call through an endpoint reference that Release() has set to
\* null, and once a Release() has cleared the registry no buffer is inserted
\* into it.  RelayBufferFromCamera checks the endpoints once (line 124) and
\* then calls AcquireBuffer and the fallback ReleaseBuffer through
\* cameraConsumerSurface_ unchecked, and it inserts without looking at the
\* running flag.
C15_TeardownRaceSafe ==
    /\ fault \notin {"AcquireBuffer", "ReleaseBuffer"}
    /\ releaseCalls >= 1 => bufferMap = {}

\* C16 as claimed: bufferMapMutex_ is held only by the forward path's insert
\* and the release path's erase.  Release() also takes it, around
\* bufferMap_.clear().
C16_LockOnlyInsertOrErase ==
    bufferMapMutex \in {"none", "fwd", "rel"}

\* C16 amended: bufferMapMutex_ is held exactly while a thread is at its one
\* registry operation - the forward path's insert, the release path's erase,
\* Release()'s clear - and the holder's next step gives it up; so no thread
\* holds it while it is at a call on either queue.
C16_LockDiscipline ==
    /\ []((bufferMapMutex = "fwd") <=> (fpc = "insert"))
    /\ []((bufferMapMutex = "rel") <=> (rpc = "erase"))
    /\ []((bufferMapMutex = "tear") <=> (tpc = "clear"))
    /\ [](bufferMapMutex \in {"none", "fwd", "rel", "tear"})
    /\ [][(bufferMapMutex = "fwd" /\ fpc' # fpc) => bufferMapMutex' = "none"]_vars
    /\ [][(bufferMapMutex = "rel" /\ rpc' # rpc) => bufferMapMutex' = "none"]_vars
    /\ [][(bufferMapMutex = "tear" /\ tpc' # tpc) => bufferMapMutex' = "none"]_vars

\* C16 witness: Release() holds the lock at its clear of a non-empty registry
C16_Witness ==
    bufferMapMutex = "tear" /\ tpc = "clear" /\ bufferMap # {}

\* C17: on an initialised and bound engine the release path for a non-null
\* buffer runs to its end whatever RequestAndDetachBuffer and ReleaseBuffer
\* return: it makes one ReleaseBuffer call with the fence of the callback and
\* one registry erase, and the erase leaves the registry without the buffer.
C17_ReleasePathRunsThrough ==
    /\ []((rpc = "ret" /\ rbuf # NoBuf) =>
             /\ rcyc.det # "none"
             /\ rcyc.calls = 1 /\ rcyc.fence = rfence
             /\ rcyc.erases = 1)
    /\ [][(rpc = "erase" /\ rpc' = "ret") => rbuf \notin bufferMap']_vars

\* C17 witness: the detach and the return both failed and the key was still
\* taken out of the registry
C17_Witness ==
    /\ rpc = "ret" /\ rcyc.det = "failed" /\ rcyc.ret = "DCAMERA_BAD_OPERATE"
    /\ rcyc.inReg /\ rcyc.calls = 1 /\ rcyc.removed = 1 /\ rbuf \notin bufferMap

\* C18: (a) before any Release(), a cycle in which AcquireBuffer, the attach,
\* the detach or the return to the camera failed leaves the running flag true
\* and both endpoints bound; (b) a Release() that has been entered runs to its
\* end - the process does not die under it - and (c) once it has completed
\* the registry is empty.  (a) holds.  (b) and (c) fail through the teardown
\* race of C15: a forward cycle running beside Release() calls through a
\* reference Release() has just set to null, or inserts after the clear.
C18_TransientErrorsNotFatal ==
    /\ (~TeardownBegun /\ (\/ cyc.entry = "acquireFailed"
                           \/ cyc.att = "DCAMERA_BAD_OPERATE"
                           \/ rcyc.det = "failed"
                           \/ rcyc.ret = "DCAMERA_BAD_OPERATE")) =>
          (isRunning /\ cameraConsumerSurface /\ encoderSurface)
    /\ tpc # "idle" => fault = "none"
    /\ TeardownDone => bufferMap = {}

C20_SetEncoderSurface ==
    /\ [][(lastRet' = "DCAMERA_BAD_VALUE" /\ lastRet # "DCAMERA_BAD_VALUE") =>
             UNCHANGED <<fields, queues, fwdVars, relVars, tearVars, initCalled,
                         obsVars>>]_vars
    /\ [][(lastRet' = "DCAMERA_BAD_OPERATE" /\ lastRet # "DCAMERA_BAD_OPERATE"
              /\ initCalled' = initCalled) =>
             (encoderSurface' /\ ~releaseListener')]_vars
    /\ [][(encoderSurface' /\ ~encoderSurface) =>
             lastRet' = (IF releaseListener' THEN "DCAMERA_OK"
                                            ELSE "DCAMERA_BAD_OPERATE")]_vars
    /\ [][(fpc = "check" /\ fpc' # fpc) =>
             ((fpc' = "acquire") <=> (cameraConsumerSurface /\ encoderSurface))]_vars

\* C20 witness: a frame was forwarded to an encoder surface whose release
\* listener registration had been rejected
C20_Witness ==
    /\ encoderSurface /\ ~releaseListener /\ lastRet = "DCAMERA_BAD_OPERATE"
    /\ fpc = "ret" /\ cyc.entry = "acquired" /\ cyc.att = "DCAMERA_OK"
    /\ frameIndex = 1 /\ bufferMap # {}

=============================================================================
